---- MODULE Spec2Model ----
(***************************************************************************)
(* A model of the HDL generator front end: AppComponent                    *)
(* (src/src/app.component.ts) and HdlGeneratorService                      *)
(* (src/src/services/hdl-generator.service.ts).                            *)
(*                                                                         *)
(* The component is a single-threaded JavaScript object.  One step of the  *)
(* model is one run-to-completion turn of the event loop: a UI event       *)
(* (generate(), setActiveTab(), an edit of the description), a tick of the *)
(* status-message interval, or the settlement of the outbound call, which  *)
(* resumes generateHdl() and then generate() in the same turn.             *)
(***************************************************************************)
EXTENDS Integers, Sequences, FiniteSets, TLC

VARIABLES
    description,      \* AppComponent.description (signal<string>)
    isLoading,        \* AppComponent.isLoading
    error,            \* AppComponent.error: string | null
    generatedOutput,  \* AppComponent.generatedOutput: GeneratedOutput | null
    activeTab,        \* AppComponent.activeTab: string | null
    loadingMessage,   \* AppComponent.loadingMessage
    loadingInterval,  \* AppComponent.loadingInterval: the handle last returned by setInterval, 0 = undefined
    timers,           \* the intervals the runtime holds active: {[id, i]}, i the closure's counter
    pendingCalls,     \* outbound generateContent() calls not yet settled
    hdlLanguage,      \* AppComponent.hdlLanguage
    deliverables,     \* AppComponent.deliverables: Deliverable[]
    request,          \* the arguments and the prompt of the outbound call that is pending
    lastOp,           \* history: the operation of the last step
    lastResponse,     \* history: how the outbound call of the last completed generate() settled
    cleared           \* history: what the pending generate() cleared when it was accepted

vars == <<description, isLoading, error, generatedOutput, activeTab, loadingMessage,
          loadingInterval, timers, pendingCalls, hdlLanguage, deliverables, request,
          lastOp, lastResponse, cleared>>

(***************************************************************************)
(* Bounds of the model.                                                    *)
(***************************************************************************)
\* the longest member list of a JSON object in a remote reply
MaxReplyLen == 2

(***************************************************************************)
(* Strings.                                                                *)
(***************************************************************************)
IsWhitespace(c) == c \in {" ", "\t", "\n"}

RECURSIVE TrimStart(_)
TrimStart(s) ==
    IF s = "" THEN ""
    ELSE IF IsWhitespace(Head(s)) THEN TrimStart(Tail(s)) ELSE s

RECURSIVE TrimEnd(_)
TrimEnd(s) ==
    IF s = "" THEN ""
    ELSE IF IsWhitespace(SubSeq(s, Len(s), Len(s)))
         THEN TrimEnd(SubSeq(s, 1, Len(s) - 1))
         ELSE s

\* String.prototype.trim
Trim(s) == TrimEnd(TrimStart(s))

(***************************************************************************)
(* Nullable values: string | null and GeneratedOutput | null.              *)
(***************************************************************************)
NullString == [null |-> TRUE, text |-> ""]
String(s) == [null |-> FALSE, text |-> s]

NullOutput == [null |-> TRUE, props |-> <<>>]
Output(props) == [null |-> FALSE, props |-> props]

(***************************************************************************)
(* JSON values as JavaScript sees them after JSON.parse.  A member value   *)
(* is null, a boolean, a number, a string, an array or an object; of an    *)
(* object only the set of its field names matters here.                    *)
(***************************************************************************)
JNull == [t |-> "null", b |-> FALSE, n |-> 0, s |-> "", fields |-> {}]
JBool(b) == [t |-> "boolean", b |-> b, n |-> 0, s |-> "", fields |-> {}]
JNum(n) == [t |-> "number", b |-> FALSE, n |-> n, s |-> "", fields |-> {}]
JStr(s) == [t |-> "string", b |-> FALSE, n |-> 0, s |-> s, fields |-> {}]
JArr == [t |-> "array", b |-> FALSE, n |-> 0, s |-> "", fields |-> {}]
JObj(fields) == [t |-> "object", b |-> FALSE, n |-> 0, s |-> "", fields |-> fields]

\* interface HdlFile
HdlFileFields == {"filename", "language", "code"}
HdlFile == JObj(HdlFileFields)
\* a second file record, with other field values: s tells the two apart
TestbenchFile == [HdlFile EXCEPT !.s = "tb.sv"]

\* JavaScript ToBoolean, as applied by `&& parsedJson[key]`
Truthy(v) ==
    CASE v.t = "null" -> FALSE
      [] v.t = "boolean" -> v.b
      [] v.t = "number" -> v.n # 0
      [] v.t = "string" -> v.s # ""
      [] OTHER -> TRUE

\* JavaScript typeof
TypeOf(v) ==
    CASE v.t = "null" -> "object"
      [] v.t = "array" -> "object"
      [] OTHER -> v.t

Member(k, v) == [key |-> k, value |-> v]

(***************************************************************************)
(* JavaScript objects keep their own properties in the order of            *)
(* OrdinaryOwnPropertyKeys: array-index keys first, ascending, then the    *)
(* other string keys in the order they were first created.  for-in,        *)
(* Object.keys and Object.entries all enumerate in that order.             *)
(***************************************************************************)
Digits == <<"0", "1", "2", "3", "4", "5", "6", "7", "8", "9">>

IsArrayIndex(k) == \E i \in DOMAIN Digits : Digits[i] = k

KeysOf(members) == {members[i].key : i \in DOMAIN members}

RECURSIVE CreationOrder(_, _)
CreationOrder(members, seen) ==
    IF members = <<>> THEN <<>>
    ELSE IF Head(members).key \in seen
         THEN CreationOrder(Tail(members), seen)
         ELSE <<Head(members).key>>
              \o CreationOrder(Tail(members), seen \cup {Head(members).key})

\* the value a key holds after the assignments were made in order: the last one
LastValue(members, k) ==
    LET i == CHOOSE i \in DOMAIN members :
                 /\ members[i].key = k
                 /\ \A j \in DOMAIN members : j > i => members[j].key # k
    IN members[i].value

OwnPropertyKeys(members) ==
    SelectSeq(Digits, LAMBDA d : d \in KeysOf(members))
    \o SelectSeq(CreationOrder(members, {}), LAMBDA k : ~IsArrayIndex(k))

RECURSIVE PropsFor(_, _)
PropsFor(keys, members) ==
    IF keys = <<>> THEN <<>>
    ELSE <<Member(Head(keys), LastValue(members, Head(keys)))>>
         \o PropsFor(Tail(keys), members)

\* the object that results from assigning the members in order to {}:
\* its own properties, in enumeration order
ObjectOf(members) == PropsFor(OwnPropertyKeys(members), members)

(***************************************************************************)
(* The JSON document a reply text denotes, and JSON.parse of it.  The top  *)
(* level of a reply need not be an object.                                 *)
(***************************************************************************)
DocObject(members) == [kind |-> "object", members |-> members, elems |-> <<>>, s |-> ""]
DocArray(elems) == [kind |-> "array", members |-> <<>>, elems |-> elems, s |-> ""]
DocString(s) == [kind |-> "string", members |-> <<>>, elems |-> <<>>, s |-> s]
DocNull == [kind |-> "null", members |-> <<>>, elems |-> <<>>, s |-> ""]
DocNumber == [kind |-> "number", members |-> <<>>, elems |-> <<>>, s |-> ""]

RECURSIVE IndexedFrom(_, _)
IndexedFrom(values, i) ==
    IF values = <<>> THEN <<>>
    ELSE <<Member(Digits[i + 1], Head(values))>> \o IndexedFrom(Tail(values), i + 1)

RECURSIVE Chars(_)
Chars(s) == IF s = "" THEN <<>> ELSE <<JStr(Head(s))>> \o Chars(Tail(s))

\* JSON.parse: the parsed value, as its kind and its own enumerable properties
JSONParse(doc) ==
    [kind |-> doc.kind,
     props |-> CASE doc.kind = "object" -> ObjectOf(doc.members)
                 [] doc.kind = "array" -> IndexedFrom(doc.elems, 0)
                 [] doc.kind = "string" -> IndexedFrom(Chars(doc.s), 0)
                 [] OTHER -> <<>>]

(***************************************************************************)
(* HdlGeneratorService.generateHdl, from the settlement of the outbound    *)
(* call on.                                                                *)
(***************************************************************************)
JsError(message) == [isError |-> TRUE, message |-> message]
\* a rejection reason that is not an Error instance
NonError == [isError |-> FALSE, message |-> ""]

ServiceFailureMessage == "The AI model failed to generate a valid response."

\* mutant: the loop keeps only the keys the response schema names
NormalizeMutantSchemaKeysOnly(parsed) ==
    ObjectOf(SelectSeq(parsed.props,
                       LAMBDA m : Truthy(m.value) /\ m.key \in {"rtlCode", "testbench"}))

\* the filtering loop: for (const key in parsedJson) if (hasOwnProperty && parsedJson[key])
Normalize(parsed) ==
    ObjectOf(SelectSeq(parsed.props, LAMBDA m : Truthy(m.value)))

Return(props) == [ok |-> TRUE, props |-> props, err |-> NonError]
Throw(err) == [ok |-> FALSE, props |-> <<>>, err |-> err]

\* mutant: the catch block rethrows what it caught
ServiceCatchMutantRethrow(err) == err

\* catch (error) { console.error(...); throw new Error('The AI model failed ...') }

ServiceCatch(err) == JsError(ServiceFailureMessage)

\* how the outbound call settled
Rejected(err) == [kind |-> "rejected", err |-> err, valid |-> FALSE, doc |-> DocNull]
\* fulfilled with a response whose text is undefined
FulfilledNoText == [kind |-> "notext", err |-> NonError, valid |-> FALSE, doc |-> DocNull]
\* fulfilled with a text that is not JSON
FulfilledNotJson == [kind |-> "text", err |-> NonError, valid |-> FALSE, doc |-> DocNull]
Fulfilled(doc) == [kind |-> "text", err |-> NonError, valid |-> TRUE, doc |-> doc]
NoResponse == [kind |-> "none", err |-> NonError, valid |-> FALSE, doc |-> DocNull]

GenerateHdl(response) ==
    CASE response.kind = "rejected" -> Throw(ServiceCatch(response.err))
      [] response.kind = "notext" ->
            Throw(ServiceCatch(JsError("Cannot read properties of undefined (reading 'trim')")))
      [] response.kind = "text" /\ ~response.valid ->
            Throw(ServiceCatch(JsError("Unexpected token in JSON")))
      [] OTHER -> Return(Normalize(JSONParse(response.doc)))

(***************************************************************************)
(* HdlGeneratorService.buildPrompt.                                        *)
(***************************************************************************)
\* mutant: the default case of the switch is missing
DeliverablePhraseMutantNoDefault(d, hdlLanguage_) ==
    CASE d = "rtlCode" -> "RTL Code in " \o hdlLanguage_
      [] d = "testbench" -> "SystemVerilog/UVM Testbench"
      [] d = "testCases" -> "Test Cases Description (in Markdown)"
      [] d = "designSpec" -> "Design Specification (in Markdown)"
      [] OTHER -> ""

\* the switch of deliverables.map
DeliverablePhrase(d, hdlLanguage_) ==
    CASE d = "rtlCode" -> "RTL Code in " \o hdlLanguage_
      [] d = "testbench" -> "SystemVerilog/UVM Testbench"
      [] d = "testCases" -> "Test Cases Description (in Markdown)"
      [] d = "designSpec" -> "Design Specification (in Markdown)"
      [] OTHER -> d

\* Array.prototype.join
RECURSIVE Join(_, _)
Join(strings, separator) ==
    IF strings = <<>> THEN ""
    ELSE IF Len(strings) = 1 THEN strings[1]
    ELSE strings[1] \o separator \o Join(Tail(strings), separator)

RECURSIVE MapPhrases(_, _)
MapPhrases(ids, hdlLanguage_) ==
    IF ids = <<>> THEN <<>>
    ELSE <<DeliverablePhrase(Head(ids), hdlLanguage_)>> \o MapPhrases(Tail(ids), hdlLanguage_)

\* const deliverableList = deliverables.map(...).join(', ')
DeliverableList(hdlLanguage_, ids) == Join(MapPhrases(ids, hdlLanguage_), ", ")

\* the template literal, cut at its three interpolations
PromptBeforeDescription ==
    "\n"
    \o "      You are an expert Hardware Design and Verification Engineer AI assistant. Your role is to help users develop, verify, and test digital designs.\n"
    \o "      Follow best practices for synthesizable, modular, and well-documented code.\n"
    \o "\n"
    \o "      User's Design Request:\n"
    \o "      \""

PromptBeforeLanguage ==
    "\"\n"
    \o "\n"
    \o "      Generation Task:\n"
    \o "      - Target RTL Language: "

PromptBeforeDeliverables ==
    "\n"
    \o "      - Verification Environment: SystemVerilog with UVM.\n"
    \o "      - Required Deliverables: "

PromptAfterDeliverables ==
    ".\n"
    \o "\n"
    \o "      Instructions:\n"
    \o "      1.  Analyze the user's request and generate all the required deliverables.\n"
    \o "      2.  Ensure all generated code is syntactically correct and complete.\n"
    \o "      3.  For testbenches, create a comprehensive UVM-based environment.\n"
    \o "      4.  For documentation (like specs or test cases), use Markdown format.\n"
    \o "      5.  Return the output as a single, valid JSON object that adheres to the provided schema. Do not include any text, markdown formatting, or code blocks before or after the JSON object.\n"
    \o "      6.  Only generate properties in the JSON for the deliverables that were explicitly requested.\n"
    \o "    "

\* mutant: the template does not interpolate the description
BuildPromptMutantNoDescription(description_, hdlLanguage_, ids) ==
    PromptBeforeDescription
    \o PromptBeforeLanguage \o hdlLanguage_
    \o PromptBeforeDeliverables \o DeliverableList(hdlLanguage_, ids)
    \o PromptAfterDeliverables

BuildPrompt(description_, hdlLanguage_, ids) ==
    PromptBeforeDescription \o description_
    \o PromptBeforeLanguage \o hdlLanguage_
    \o PromptBeforeDeliverables \o DeliverableList(hdlLanguage_, ids)
    \o PromptAfterDeliverables

(***************************************************************************)
(* The remote side: what a reply may hold.                                 *)
(***************************************************************************)
PartialFile == JObj({"filename", "language"})

ReplyMembers ==
    { Member("rtlCode", HdlFile),
      Member("testbench", TestbenchFile),
      Member("testbench", JBool(TRUE)),
      Member("testCases", JNull),
      Member("rtlCode", PartialFile),
      Member("1", HdlFile),
      Member("", HdlFile) }

SeqsUpTo(S, n) == UNION {[1..k -> S] : k \in 0..n}

ReplyDocs ==
    {DocObject(m) : m \in SeqsUpTo(ReplyMembers, MaxReplyLen)}
    \cup {DocNull, DocNumber, DocString("ab"),
          DocArray(<<JNum(7), JArr>>), DocArray(<<JNum(0), JStr("")>>)}

RejectionReasons == {JsError("Network error"), JsError(""), NonError}

Responses ==
    {Rejected(e) : e \in RejectionReasons}
    \cup {FulfilledNoText, FulfilledNotJson}
    \cup {Fulfilled(d) : d \in ReplyDocs}

(***************************************************************************)
(* AppComponent.                                                           *)
(***************************************************************************)
DefaultDescription == "Design a 4-bit synchronous up-counter with an active-high reset."

InitialLoadingMessage == "Initializing AI assistant..."

\* const messages = [...] of startLoading
messages ==
    << "Analyzing requirements...",
       "Synthesizing RTL...",
       "Building UVM environment...",
       "Generating assertions & coverage...",
       "Writing simulation scripts...",
       "Finalizing documentation..." >>

ErrorLabel == "Failed to generate HDL content. "

UnknownErrorMessage == "An unknown error occurred. Please check the console for details."

\* availableDeliverables
Deliverable(id, name, checked) == [id |-> id, name |-> name, checked |-> checked]

availableDeliverables ==
    << Deliverable("rtlCode", "RTL Code", TRUE),
       Deliverable("testbench", "UVM Testbench", TRUE),
       Deliverable("functionalCoverage", "Func. Coverage", FALSE),
       Deliverable("svaAssertions", "SVA Assertions", FALSE),
       Deliverable("simulationScripts", "Sim Scripts", FALSE),
       Deliverable("testCases", "Test Cases", FALSE),
       Deliverable("designSpec", "Design Spec", FALSE),
       Deliverable("performanceReport", "Perf. Report", FALSE) >>

HdlLanguages == {"VHDL", "Verilog"}

RECURSIVE IdsOf(_)
IdsOf(list) == IF list = <<>> THEN <<>> ELSE <<Head(list).id>> \o IdsOf(Tail(list))

\* this.deliverables().filter(d => d.checked).map(d => d.id)
selectedDeliverables == IdsOf(SelectSeq(deliverables, LAMBDA d : d.checked))

\* no call is pending
NoRequest == [description |-> "", hdlLanguage |-> "", deliverables |-> <<>>, prompt |-> ""]

\* generateHdl(this.description(), this.hdlLanguage(), this.selectedDeliverables(), ...):
\* the arguments are read and the prompt is built before the call is sent; the
\* service takes three parameters, so protocol and simulationTool are dropped
OutboundRequest ==
    [description |-> description,
     hdlLanguage |-> hdlLanguage,
     deliverables |-> selectedDeliverables,
     prompt |-> BuildPrompt(description, hdlLanguage, selectedDeliverables)]

RECURSIVE EntriesOf(_)
EntriesOf(props) ==
    IF props = <<>> THEN <<>>
    ELSE (IF Truthy(Head(props).value) /\ TypeOf(Head(props).value) = "object"
          THEN <<Head(props)>> ELSE <<>>)
         \o EntriesOf(Tail(props))

\* the computed outputFiles: no entry while there is no result, else one entry
\* { key, ...value } per property whose value is truthy and typeof 'object'.
\* No record of the replies modelled has a field named key, which the spread
\* would put in the place of the property's key.
OutputFiles(output) == IF output.null THEN <<>> ELSE EntriesOf(output.props)

\* what the form can hold as the description
DescriptionInputs == {DefaultDescription, "", " \t\n"}

\* the keys setActiveTab is called with
TabInputs == {"testbench"}

\* setInterval returns a handle no active interval has.  Handles are only
\* compared for identity, so the smallest positive one not in use and
\* different from the stale handle in loadingInterval stands for a fresh one.
NewTimerId ==
    CHOOSE n \in 1..(Cardinality(timers) + 2) :
        /\ n # loadingInterval
        /\ \A t \in timers : t.id # n

\* mutant: the guard forgets the busy flag
GenerateRejectsMutantNoBusyCheck == Trim(description) = ""

\* mutant: the guard forgets the description
GenerateRejectsMutantNoBlankCheck == isLoading

\* if (this.isLoading() || !this.description().trim()) return;
GenerateRejects == isLoading \/ Trim(description) = ""

\* mutant: the instanceof test is inverted
ErrorMessageMutantInverted(err) ==
    IF err.isError THEN UnknownErrorMessage ELSE err.message

\* const errorMessage = (err instanceof Error) ? err.message : '...'
ErrorMessage(err) == IF err.isError THEN err.message ELSE UnknownErrorMessage

\* mutant: the last key is taken instead of the first
FirstKeyMutantLast(props) ==
    IF props = <<>> THEN NullString ELSE String(props[Len(props)].key)

\* Object.keys(result)[0]: undefined (null here) when result has no key
FirstKey(props) == IF props = <<>> THEN NullString ELSE String(props[1].key)

\* mutant: the tab is written whatever the first key is
FirstKeyTruthyMutantAlways(k) == TRUE

\* if (firstKey): neither undefined nor the empty string
FirstKeyTruthy(k) == ~k.null /\ k.text # ""

\* mutant: the previous result is left in place until the reply arrives
ClearOnEntryMutantKeepsResult ==
    /\ error' = NullString
    /\ UNCHANGED generatedOutput

\* mutant: the previous error is left in place until the reply arrives
ClearOnEntryMutantKeepsError ==
    /\ generatedOutput' = NullOutput
    /\ UNCHANGED error

\* this.error.set(null); this.generatedOutput.set(null);
ClearOnEntry ==
    /\ error' = NullString
    /\ generatedOutput' = NullOutput

startLoading ==
    /\ isLoading' = TRUE
    /\ loadingMessage' = messages[1]
    /\ loadingInterval' = NewTimerId
    /\ timers' = timers \cup {[id |-> NewTimerId, i |-> 0]}

\* mutant: the interval is never cleared
stopLoadingMutantLeaksTimer ==
    /\ isLoading' = FALSE
    /\ UNCHANGED <<timers, loadingInterval, loadingMessage>>

\* mutant: the busy flag is never reset
stopLoadingMutantStaysBusy ==
    /\ isLoading' = isLoading
    /\ timers' = IF loadingInterval # 0
                 THEN {t \in timers : t.id # loadingInterval}
                 ELSE timers
    /\ UNCHANGED <<loadingInterval, loadingMessage>>

stopLoading ==
    /\ isLoading' = FALSE
    /\ timers' = IF loadingInterval # 0
                 THEN {t \in timers : t.id # loadingInterval}
                 ELSE timers
    /\ UNCHANGED <<loadingInterval, loadingMessage>>

Init ==
    /\ description = DefaultDescription
    /\ isLoading = FALSE
    /\ error = NullString
    /\ generatedOutput = NullOutput
    /\ activeTab = NullString
    /\ loadingMessage = InitialLoadingMessage
    /\ loadingInterval = 0
    /\ timers = {}
    /\ pendingCalls = 0
    /\ hdlLanguage = "Verilog"
    /\ deliverables = availableDeliverables
    /\ request = NoRequest
    /\ lastOp = "new"
    /\ lastResponse = NoResponse
    /\ cleared = "none"

\* generate(), up to its await: the guard, startLoading(), the two clears and
\* the outbound call made by generateHdl()
Generate ==
    /\ lastOp' = "generate"
    /\ UNCHANGED <<hdlLanguage, deliverables>>
    /\ IF GenerateRejects
       THEN UNCHANGED <<description, isLoading, error, generatedOutput, activeTab,
                        loadingMessage, loadingInterval, timers, pendingCalls,
                        request, lastResponse, cleared>>
       ELSE /\ startLoading
            /\ ClearOnEntry
            /\ pendingCalls' = pendingCalls + 1
            /\ request' = OutboundRequest
            /\ cleared' = IF ~generatedOutput.null THEN "result"
                          ELSE IF ~error.null THEN "error" ELSE "nothing"
            /\ lastResponse' = NoResponse
            /\ UNCHANGED <<description, activeTab>>

\* the outbound call settles: generateHdl() resumes, then generate() resumes
\* with its result or its error, and the finally block runs
Settle(response) ==
    /\ pendingCalls > 0
    /\ pendingCalls' = pendingCalls - 1
    /\ lastOp' = "settle"
    /\ lastResponse' = response
    /\ cleared' = "none"
    /\ LET outcome == GenerateHdl(response)
           firstKey == FirstKey(outcome.props)
       IN IF outcome.ok
          THEN /\ generatedOutput' = Output(outcome.props)
               /\ activeTab' = IF FirstKeyTruthy(firstKey) THEN firstKey ELSE activeTab
               /\ error' = error
          ELSE /\ error' = String(ErrorLabel \o ErrorMessage(outcome.err))
               /\ UNCHANGED <<generatedOutput, activeTab>>
    /\ stopLoading
    /\ request' = NoRequest
    /\ UNCHANGED <<description, hdlLanguage, deliverables>>

\* the callback of setInterval
Tick(t) ==
    /\ t \in timers
    /\ LET i == (t.i + 1) % Len(messages)
       IN /\ timers' = (timers \ {t}) \cup {[id |-> t.id, i |-> i]}
          /\ loadingMessage' = messages[i + 1]
    /\ lastOp' = "tick"
    /\ UNCHANGED <<description, isLoading, error, generatedOutput, activeTab,
                   loadingInterval, pendingCalls, hdlLanguage, deliverables, request,
                   lastResponse, cleared>>

setActiveTab(key) ==
    /\ activeTab' = String(key)
    /\ lastOp' = "setActiveTab"
    /\ UNCHANGED <<description, isLoading, error, generatedOutput, loadingMessage,
                   loadingInterval, timers, pendingCalls, hdlLanguage, deliverables,
                   request, lastResponse, cleared>>

\* the form writes the description signal
SetDescription(d) ==
    /\ description' = d
    /\ lastOp' = "setDescription"
    /\ UNCHANGED <<isLoading, error, generatedOutput, activeTab, loadingMessage,
                   loadingInterval, timers, pendingCalls, hdlLanguage, deliverables,
                   request, lastResponse, cleared>>

\* mutant: the pending call reads the language when it is sent, after the edit
SetHdlLanguageMutantReachesRequest(language) ==
    /\ hdlLanguage' = language
    /\ request' = IF request = NoRequest THEN request
                  ELSE [request EXCEPT !.hdlLanguage = language]
    /\ lastOp' = "setHdlLanguage"
    /\ UNCHANGED <<description, isLoading, error, generatedOutput, activeTab,
                   loadingMessage, loadingInterval, timers, pendingCalls, deliverables,
                   lastResponse, cleared>>

\* the form writes the hdlLanguage signal
SetHdlLanguage(language) ==
    /\ hdlLanguage' = language
    /\ lastOp' = "setHdlLanguage"
    /\ UNCHANGED <<description, isLoading, error, generatedOutput, activeTab,
                   loadingMessage, loadingInterval, timers, pendingCalls, deliverables,
                   request, lastResponse, cleared>>

\* mutant: the entry is checked instead of toggled
ToggledListMutantSetsChecked(current, index) ==
    [current EXCEPT ![index + 1] =
        Deliverable(current[index + 1].id, current[index + 1].name, TRUE)]

\* the list toggleDeliverable's updater returns: a copy of current with the
\* entry at index (counted from 0) replaced by a copy with checked negated
ToggledList(current, index) ==
    [current EXCEPT ![index + 1] =
        Deliverable(current[index + 1].id, current[index + 1].name,
                    ~current[index + 1].checked)]

toggleDeliverable(index) ==
    /\ index \in 0..(Len(deliverables) - 1)
    /\ deliverables' = ToggledList(deliverables, index)
    /\ lastOp' = "toggleDeliverable"
    /\ UNCHANGED <<description, isLoading, error, generatedOutput, activeTab,
                   loadingMessage, loadingInterval, timers, pendingCalls, hdlLanguage,
                   request, lastResponse, cleared>>

SettleAny == \E response \in Responses : Settle(response)
TickAny == \E t \in timers : Tick(t)
SetActiveTabAny == \E key \in TabInputs : setActiveTab(key)
SetDescriptionAny == \E d \in DescriptionInputs : SetDescription(d)

Next ==
    \/ Generate
    \/ SettleAny
    \/ TickAny
    \/ SetActiveTabAny
    \/ SetDescriptionAny

Spec == Init /\ [][Next]_vars

\* every outbound call eventually resolves or rejects
LiveSpec == Spec /\ WF_vars(SettleAny)

(***************************************************************************)
(* The form edited around a generation.  Spec follows the life cycle of a  *)
(* generation under every reply with the language and the deliverables     *)
(* left as constructed; FormSpec adds the edits of those two and takes     *)
(* few replies.                                                            *)
(***************************************************************************)
\* the indices (from 0) toggleDeliverable is called with: a known deliverable
\* that starts checked and one the service does not know that starts unchecked
ToggleInputs == {0, 2}

\* descriptions of the form: the default, a word of the template, a blank one
FormDescriptionInputs == {DefaultDescription, "UVM", " "}

FormResponses ==
    { Rejected(JsError("Network error")),
      Fulfilled(DocObject(<<Member("rtlCode", HdlFile), Member("testbench", TestbenchFile)>>)) }

FormSettleAny == \E response \in FormResponses : Settle(response)
FormSetDescriptionAny == \E d \in FormDescriptionInputs : SetDescription(d)
SetHdlLanguageAny == \E language \in HdlLanguages : SetHdlLanguage(language)
ToggleDeliverableAny == \E index \in ToggleInputs : toggleDeliverable(index)

FormNext ==
    \/ Generate
    \/ FormSettleAny
    \/ TickAny
    \/ SetActiveTabAny
    \/ FormSetDescriptionAny
    \/ SetHdlLanguageAny
    \/ ToggleDeliverableAny

FormSpec == Init /\ [][FormNext]_vars

\* buildPrompt on every input of the form: the eight check boxes in every
\* combination, both languages, the descriptions above
AllCheckings ==
    { [i \in DOMAIN availableDeliverables |->
          Deliverable(availableDeliverables[i].id, availableDeliverables[i].name, b[i])]
      : b \in [DOMAIN availableDeliverables -> BOOLEAN] }

PromptInit ==
    /\ description \in FormDescriptionInputs
    /\ hdlLanguage \in HdlLanguages
    /\ deliverables \in AllCheckings
    /\ isLoading = FALSE
    /\ error = NullString
    /\ generatedOutput = NullOutput
    /\ activeTab = NullString
    /\ loadingMessage = InitialLoadingMessage
    /\ loadingInterval = 0
    /\ timers = {}
    /\ pendingCalls = 0
    /\ request = NoRequest
    /\ lastOp = "new"
    /\ lastResponse = NoResponse
    /\ cleared = "none"

PromptNext ==
    \/ Generate
    \/ FormSettleAny

PromptSpec == PromptInit /\ [][PromptNext]_vars

\* the check boxes alone: every list the eight check boxes can form, every index
ToggleAnyIndex == \E index \in 0..(Len(deliverables) - 1) : toggleDeliverable(index)

ToggleSpec == Init /\ [][ToggleAnyIndex]_vars

(***************************************************************************)
(* Properties.                                                             *)
(***************************************************************************)
\* the surfaced text of a failed generation
ServiceFailureText == String(ErrorLabel \o ServiceFailureMessage)

FailedToParse(response) == response.kind = "text" /\ ~response.valid

\* C1: at most one outbound call is outstanding at any time, and it is
\* outstanding exactly while isLoading: a generate() invoked while a call is
\* pending adds no second call.
C1_SingleOutstandingCall ==
    /\ pendingCalls <= 1
    /\ isLoading <=> pendingCalls = 1

\* a generate() was invoked while the call was pending (the interval had
\* already ticked, so the invocation is not the accepted one) and was dropped
C1_Witness ==
    /\ lastOp = "generate"
    /\ isLoading
    /\ loadingMessage = messages[2]
    /\ pendingCalls = 1

\* C2: while a call is pending, generatedOutput is null and error is null.
C2_PendingIsCleared ==
    isLoading => generatedOutput.null /\ error.null

\* a call is pending whose acceptance cleared the result of the call before it
C2_Witness ==
    /\ isLoading
    /\ cleared = "result"
    /\ generatedOutput.null

\* the keys the claim of C3 puts in the result: those of the parsed reply whose
\* value is truthy and an object, not null, a primitive or an array
C3_ClaimedKeys(response) ==
    LET props == JSONParse(response.doc).props
    IN {props[i].key : i \in {j \in DOMAIN props :
                                 /\ Truthy(props[j].value)
                                 /\ props[j].value.t = "object"}}

\* C3: the result of the filtering loop holds a top-level key of the parsed
\* reply if and only if its value is truthy and of type object.
C3_OnlyTruthyObjects ==
    ~generatedOutput.null =>
        KeysOf(generatedOutput.props) = C3_ClaimedKeys(lastResponse)

\* C4: generatedOutput is null or a mapping in which every value is a file
\* record with the three fields filename, language and code.
C4_OnlyFileRecords ==
    generatedOutput.null
    \/ \A i \in DOMAIN generatedOutput.props :
          /\ generatedOutput.props[i].value.t = "object"
          /\ HdlFileFields \subseteq generatedOutput.props[i].value.fields

\* C5: a reply that is not valid JSON and a rejected call end in the same
\* state: the same error text, no result, not loading.
C5_ParseFailureLikeRejection ==
    (lastResponse.kind = "rejected" \/ FailedToParse(lastResponse)) =>
        /\ error = ServiceFailureText
        /\ generatedOutput.null
        /\ ~isLoading

\* a call that had cleared nothing but was answered with a text that is not
\* JSON has completed
C5_Witness ==
    /\ lastOp = "settle"
    /\ FailedToParse(lastResponse)
    /\ ~error.null

\* C6: the rotation timer runs exactly while a call is pending, it is the one
\* loadingInterval names, and there is never more than one.
C6_TimerRunsWhileLoading ==
    /\ isLoading <=> timers # {}
    /\ Cardinality(timers) <= 1
    /\ \A t \in timers : t.id = loadingInterval

\* a call during which the timer ticked has completed and the timer is gone
C6_Witness ==
    /\ lastOp = "settle"
    /\ ~isLoading
    /\ loadingInterval # 0
    /\ loadingMessage = messages[2]
    /\ timers = {}

\* C7: every accepted generate() eventually leaves isLoading, and whenever
\* the component is not loading a generate() with a non-blank description is
\* accepted.
C7_AlwaysRestartable ==
    /\ isLoading ~> ~isLoading
    /\ [][(lastOp' = "generate" /\ ~isLoading /\ Trim(description) # "")
            => (isLoading' /\ pendingCalls' = pendingCalls + 1)]_vars

\* a generate() was accepted after a failed one
C7_Witness ==
    /\ isLoading
    /\ cleared = "error"

\* the keys of a reply in the order they appear in it
ReplyKeyOrder(doc) ==
    IF doc.kind = "object"
    THEN CreationOrder(doc.members, {})
    ELSE [i \in DOMAIN JSONParse(doc).props |-> JSONParse(doc).props[i].key]

\* the first key of a reply, in the order of the reply, that the result kept
C8_FirstInReplyOrder(doc, props) ==
    LET order == ReplyKeyOrder(doc)
        i == CHOOSE i \in DOMAIN order :
                 /\ order[i] \in KeysOf(props)
                 /\ \A j \in DOMAIN order : j < i => order[j] \notin KeysOf(props)
    IN order[i]

C8_FirstEnumerated(doc, props) ==
    LET indices == {i \in DOMAIN Digits : Digits[i] \in KeysOf(props)}
    IN IF indices # {}
       THEN Digits[CHOOSE i \in indices : \A j \in indices : i <= j]
       ELSE C8_FirstInReplyOrder(doc, props)

C9_RejectedChangesNothing ==
    [][(lastOp' = "generate" /\ (isLoading \/ Trim(description) = "")) =>
          UNCHANGED <<description, isLoading, error, generatedOutput, activeTab,
                      loadingMessage, loadingInterval, timers, pendingCalls>>]_vars

\* a generate() with a description of whitespace only was invoked, after a failure
C9_Witness ==
    /\ lastOp = "generate"
    /\ ~isLoading
    /\ description = " \t\n"
    /\ ~error.null

\* C10 as stated: a failure that carries a message is shown as the label
\* followed by that message, and the fallback text only for one without.
C10_UnderlyingMessageShown ==
    /\ (lastResponse.kind = "rejected" /\ lastResponse.err.isError
           /\ lastResponse.err.message # "") =>
          error = String(ErrorLabel \o lastResponse.err.message)
    /\ error = String(ErrorLabel \o UnknownErrorMessage) =>
          (lastResponse.kind = "rejected"
             /\ (~lastResponse.err.isError \/ lastResponse.err.message = ""))

\* C10 amended: whatever the outbound call was rejected with, the error shown
\* is the label followed by the service's fixed message, never the rejection's
\* own message and never the fallback text.
C10_ServiceMessageShown ==
    lastResponse.kind = "rejected" =>
        /\ error = String(ErrorLabel \o ServiceFailureMessage)
        /\ error # String(ErrorLabel \o UnknownErrorMessage)
        /\ lastResponse.err.message # ServiceFailureMessage =>
              error # String(ErrorLabel \o lastResponse.err.message)

\* the outbound call was rejected with an Error that carries a message
C10_Witness ==
    /\ lastResponse = Rejected(JsError("Network error"))
    /\ ~error.null

Occurrences(needle, text) ==
    Cardinality({i \in 1..(Len(text) - Len(needle) + 1) :
                    SubSeq(text, i, i + Len(needle) - 1) = needle})

\* where the description starts in the prompt of a request
DescriptionStart == Len(PromptBeforeDescription) + 1

\* the deliverable list clause of the prompt of a request: what stands between
\* "- Required Deliverables: " and the "." that ends the line
ClauseOf(r) ==
    SubSeq(r.prompt,
           Len(PromptBeforeDescription) + Len(r.description)
             + Len(PromptBeforeLanguage) + Len(r.hdlLanguage)
             + Len(PromptBeforeDeliverables) + 1,
           Len(r.prompt) - Len(PromptAfterDeliverables))

\* the fixed phrases of the known identifiers
C12_KnownPhrases(language) ==
    [id \in {"rtlCode", "testbench", "testCases", "designSpec"} |->
        IF id = "rtlCode" THEN "RTL Code in " \o language
        ELSE IF id = "testbench" THEN "SystemVerilog/UVM Testbench"
        ELSE IF id = "testCases" THEN "Test Cases Description (in Markdown)"
        ELSE "Design Specification (in Markdown)"]

\* the clause of the first n identifiers, built from the left
RECURSIVE C12_Clause(_, _, _)
C12_Clause(ids, n, language) ==
    IF n = 0 THEN ""
    ELSE (IF n = 1 THEN "" ELSE C12_Clause(ids, n - 1, language) \o ", ")
         \o (IF ids[n] \in DOMAIN C12_KnownPhrases(language)
             THEN C12_KnownPhrases(language)[ids[n]]
             ELSE ids[n])

\* C12: the deliverable list clause of the prompt holds one phrase per
\* requested identifier, in the order of the request, joined by ", ": the
\* fixed phrase of a known identifier, an unknown identifier verbatim.
C12_OnePhrasePerDeliverable ==
    request # NoRequest =>
        /\ ClauseOf(request)
             = C12_Clause(request.deliverables, Len(request.deliverables), request.hdlLanguage)
        /\ request.deliverables # <<>> =>
             Occurrences(", ", ClauseOf(request)) = Len(request.deliverables) - 1

\* a request for VHDL that names known and unknown identifiers, rtlCode not first
C12_Witness ==
    /\ request # NoRequest
    /\ request.hdlLanguage = "VHDL"
    /\ request.deliverables = <<"testbench", "svaAssertions", "testCases", "performanceReport">>
    /\ ClauseOf(request) = "SystemVerilog/UVM Testbench, svaAssertions, "
                           \o "Test Cases Description (in Markdown), performanceReport"

\* a mapping as the set of its key-value pairs
MappingOf(props) == {props[i] : i \in DOMAIN props}

\* a reply that is a JSON object whose top-level values are all file records
\* with exactly the three fields
C13_CleanReply(response) ==
    /\ response.kind = "text"
    /\ response.valid
    /\ response.doc.kind = "object"
    /\ \A m \in MappingOf(JSONParse(response.doc).props) :
          m.value.t = "object" /\ m.value.fields = HdlFileFields

C14_DescriptionOccursOnce ==
    (request # NoRequest /\ request.description # "") =>
        Occurrences(request.description, request.prompt) = 1

\* what follows the description in the prompt of a request
C14_AfterDescription(r) ==
    SubSeq(r.prompt, DescriptionStart + Len(r.description), Len(r.prompt))

\* C14, amended: the prompt holds the description verbatim at the one place
\* where the template interpolates it, between the quotes under "User's Design
\* Request:", and what surrounds it does not depend on the description; the
\* text of the description occurs there and once more for every occurrence in
\* the wording before or after that place.
C14_DescriptionInterpolatedOnce ==
    (request # NoRequest /\ request.description # "") =>
        /\ SubSeq(request.prompt, 1, DescriptionStart - 1) = PromptBeforeDescription
        /\ SubSeq(request.prompt, DescriptionStart,
                  DescriptionStart + Len(request.description) - 1) = request.description
        /\ C14_AfterDescription(request)
             = PromptBeforeLanguage \o request.hdlLanguage
               \o PromptBeforeDeliverables \o ClauseOf(request) \o PromptAfterDeliverables
        /\ Occurrences(request.description, request.prompt)
             >= 1 + Occurrences(request.description, PromptBeforeDescription)
                  + Occurrences(request.description, C14_AfterDescription(request))

\* the description "UVM" was sent with a request for a testbench: the prompt
\* holds its text four times
C14_Witness ==
    /\ request # NoRequest
    /\ request.description = "UVM"
    /\ \E i \in DOMAIN request.deliverables : request.deliverables[i] = "testbench"
    /\ Occurrences(request.description, request.prompt) = 4

\* the position of an identifier in the list of check boxes
C15_Position(id) == CHOOSE i \in DOMAIN deliverables : deliverables[i].id = id

\* ids names the checked entries of the form, each once, in the order of the form
C15_NamesTheChecked(ids) ==
    /\ \A i \in DOMAIN deliverables :
          deliverables[i].checked <=> \E k \in DOMAIN ids : ids[k] = deliverables[i].id
    /\ \A k \in DOMAIN ids : \E i \in DOMAIN deliverables : deliverables[i].id = ids[k]
    /\ \A k, l \in DOMAIN ids : k < l => C15_Position(ids[k]) < C15_Position(ids[l])

C15_FormEdits == {"setDescription", "setHdlLanguage", "toggleDeliverable"}

\* C15: the request of an accepted generate() holds the description, the
\* language and the selected deliverables the form has at that moment; an edit
\* of the form while the call is pending changes neither the request nor what
\* the component holds as result, and the result stored at the reply is what
\* the reply alone determines.
C15_RequestIsSnapshot ==
    [][/\ (~isLoading /\ isLoading') =>
             /\ request'.description = description
             /\ request'.hdlLanguage = hdlLanguage
             /\ C15_NamesTheChecked(request'.deliverables)
             /\ SubSeq(request'.prompt, DescriptionStart,
                       DescriptionStart + Len(description) - 1) = description
             /\ C14_AfterDescription(request')
                  = PromptBeforeLanguage \o hdlLanguage \o PromptBeforeDeliverables
                    \o C12_Clause(request'.deliverables, Len(request'.deliverables), hdlLanguage)
                    \o PromptAfterDeliverables
       /\ (isLoading /\ isLoading') => request' = request
       /\ lastOp' \in C15_FormEdits =>
             UNCHANGED <<request, generatedOutput, error, isLoading, pendingCalls>>
       /\ (lastOp' = "settle" /\ lastResponse'.valid) =>
             MappingOf(generatedOutput'.props)
               = {m \in MappingOf(JSONParse(lastResponse'.doc).props) : Truthy(m.value)}
      ]_vars

\* a call is pending and the description, the language and the check boxes
\* have all been edited since it was sent
C15_Witness ==
    /\ isLoading
    /\ lastOp \in C15_FormEdits
    /\ request.description # description
    /\ request.hdlLanguage # hdlLanguage
    /\ ~C15_NamesTheChecked(request.deliverables)

\* C16: error and generatedOutput are never both non-null, and once an accepted
\* generate() has completed exactly one of them is non-null.
C16_ResultOrError ==
    /\ ~(~error.null /\ ~generatedOutput.null)
    /\ (~isLoading /\ lastResponse.kind # "none") => (error.null # generatedOutput.null)

\* a call has completed with a reply that holds no key: the result is the
\* empty mapping, which is not null, and there is no error
C16_Witness ==
    /\ lastOp = "settle"
    /\ ~isLoading
    /\ lastResponse.valid
    /\ generatedOutput = Output(<<>>)
    /\ error.null

\* C17: a step of generate() changes activeTab only when it stores a result
\* that has at least one key; the acceptance, a rejected invocation, the
\* failed exit and the exit with an empty result leave it as it was.
C17_TabWrittenOnlyOnSuccess ==
    [][(lastOp' \in {"generate", "settle"} /\ activeTab' # activeTab) =>
          /\ lastOp' = "settle"
          /\ lastResponse'.valid
          /\ ~generatedOutput'.null
          /\ generatedOutput'.props # <<>>
          /\ activeTab' = String(generatedOutput'.props[1].key)]_vars

\* the tab generate() selected for a result is still selected while the next
\* call, whose acceptance cleared that result, is pending
C17_Witness ==
    /\ lastOp = "generate"
    /\ isLoading
    /\ cleared = "result"
    /\ generatedOutput.null
    /\ activeTab = String("rtlCode")

\* C18: once a successful generate() has stored a result with at least one
\* key, and before setActiveTab is called, activeTab is the key of one of the
\* entries of outputFiles.
C18_ActiveTabHasFile ==
    (lastOp = "settle" /\ ~generatedOutput.null /\ generatedOutput.props # <<>>) =>
        /\ ~activeTab.null
        /\ activeTab.text \in KeysOf(OutputFiles(generatedOutput))

====
